---- MODULE Spec2Model ----
(***************************************************************************)
(* xapian-bridge: the HTTP control plane of src/xapianBridge.js over the   *)
(* database manager (registry of open Xapian databases) and the database  *)
(* cache (persisted index_name -> path entries).                          *)
(*                                                                         *)
(* main() replays the cache, registers four handlers and runs the server. *)
(* The server is single threaded: every handler runs to completion, so    *)
(* each handler is one action.                                             *)
(***************************************************************************)
EXTENDS Integers, Sequences, FiniteSets, TLC

\* ------------------------------------------------------------------ bounds
\* largest value of the limit query parameter a client sends
MaxLimit == 2

\* ------------------------------------------------------- program constants
META_DATABASE_NAME == "_all"
META_DATABASE_METHODS == "GET"

Status_OK == 200
Status_BAD_REQUEST == 400
Status_FORBIDDEN == 403
Status_NOT_FOUND == 404
Status_METHOD_NOT_ALLOWED == 405
Status_INTERNAL_SERVER_ERROR == 500

\* the sentinel values DatabaseManager throws, and the other things a call
\* can throw (a storage failure of the cache, a failure inside the engine)
ERR_INVALID_PATH == "ERR_INVALID_PATH"
ERR_DATABASE_NOT_FOUND == "ERR_DATABASE_NOT_FOUND"
ERR_STORAGE == "ERR_STORAGE"
ERR_ENGINE == "ERR_ENGINE"
NoError == "none"

\* ------------------------------------------------------------ environment
\* index names a client can put in the URL; the meta name is one of them
IndexNames == {"idx1", "idx2"}
Names == IndexNames \cup {META_DATABASE_NAME}
\* the order in which the manager walks its open databases
NameOrder == <<"idx1", "idx2", "_all">>

\* paths on disk: two hold an openable database, one holds nothing, and
\* opening the last one fails for a reason other than a missing database
ValidPaths == {"/valid/a", "/valid/b"}
InvalidPaths == {"/missing/path"}
BrokenPaths == {"/broken/path"}
Paths == ValidPaths \cup InvalidPaths \cup BrokenPaths

\* no handle / no cache entry under a name
Absent == "absent"

\* query expressions and collapse terms a client can send
Queries == {"dog"}
CollapseTerms == {"topic"}

\* the documents of the two databases, best score first
Documents(path) ==
    IF path = "/valid/a"
    THEN << [id |-> "a1", score |-> 9, topic |-> "t1", terms |-> {"cat", "dog"}],
            [id |-> "a2", score |-> 5, topic |-> "t1", terms |-> {"cat"}],
            [id |-> "a3", score |-> 2, topic |-> "t2", terms |-> {"cat"}] >>
    ELSE IF path = "/valid/b"
    THEN << [id |-> "b1", score |-> 7, topic |-> "t3", terms |-> {"cat"}],
            [id |-> "b2", score |-> 5, topic |-> "t3", terms |-> {"cat", "dog"}],
            [id |-> "b3", score |-> 1, topic |-> "t4", terms |-> {"dog"}] >>
    ELSE << >>

VARIABLES
    pc,                     \* where main() is: "replay", "serving", "crashed"
    registry,               \* DatabaseManager: name -> path of the open handle
    cache,                  \* DatabaseCache: name -> persisted path
    stored_database_paths,  \* the snapshot main() took with get_entries()
    todo,                   \* snapshot names the for-in loop has not visited
    req,                    \* the request the last handler ran for
    resp,                   \* the response it set up on the message
    thrown,                 \* what the manager or the cache threw in it
    calls,                  \* the manager and cache methods it called, in order
    released                \* name -> path of the handle its last DELETE answered
                            \* 200 closed, while no other DELETE closed it since

vars == <<pc, registry, cache, stored_database_paths, todo, req, resp, thrown, calls, released>>

NoRequest == [method |-> "none"]
NoResponse == [status |-> 0, headers |-> {}, body |-> << >>]

\* an optional argument or query parameter: << >> is undefined, <<v>> is v
Undefined == << >>
Opt(S) == {Undefined} \cup {<<v>> : v \in S}
Param(query, key) == IF key \in DOMAIN query THEN <<query[key]>> ELSE Undefined

\* --------------------------------------------------------- DatabaseManager
has_db(reg, index_name) == reg[index_name] # Absent

\* what create_db throws; an open name is left alone and nothing is thrown
create_db_throws(reg, index_name, path) ==
    IF has_db(reg, index_name) THEN NoError
    ELSE IF path \in ValidPaths THEN NoError
    ELSE IF path \in InvalidPaths THEN ERR_INVALID_PATH
    ELSE ERR_ENGINE

\* the registry after create_db: unchanged whenever it throws
create_db(reg, index_name, path) ==
    IF ~has_db(reg, index_name) /\ create_db_throws(reg, index_name, path) = NoError
    THEN [reg EXCEPT ![index_name] = path]
    ELSE reg

remove_db_throws(reg, index_name) ==
    IF has_db(reg, index_name) THEN NoError ELSE ERR_DATABASE_NOT_FOUND

remove_db(reg, index_name) ==
    IF has_db(reg, index_name) THEN [reg EXCEPT ![index_name] = Absent] ELSE reg

\* ----------------------------------------------------------- DatabaseCache
get_entries(ca) == [n \in {m \in DOMAIN ca : ca[m] # Absent} |-> ca[n]]

\* a storage failure leaves the persisted entries as they were
cache_throws(storageFails) == IF storageFails THEN ERR_STORAGE ELSE NoError

set_entry(ca, index_name, path, storageFails) ==
    IF storageFails THEN ca ELSE [ca EXCEPT ![index_name] = path]

remove_entry(ca, index_name, storageFails) ==
    IF storageFails THEN ca ELSE [ca EXCEPT ![index_name] = Absent]

\* ------------------------------------------------------------------ engine
RECURSIVE Collapse(_, _)
\* keep the best document of every topic
Collapse(docs, seen) ==
    IF docs = << >> THEN << >>
    ELSE IF Head(docs).topic \in seen THEN Collapse(Tail(docs), seen)
    ELSE <<Head(docs)>> \o Collapse(Tail(docs), seen \cup {Head(docs).topic})

Take(s, n) == SubSeq(s, 1, IF n < Len(s) THEN n ELSE Len(s))

Matches(d, q) == q = Undefined \/ q[1] \in d.terms

\* one engine query on the database at path
Search(path, q, collapse_term, limit) ==
    LET hits == SelectSeq(Documents(path), LAMBDA d : Matches(d, q))
        kept == IF collapse_term = Undefined THEN hits ELSE Collapse(hits, {})
    IN  Take(kept, limit)

RECURSIVE Merge(_, _)
\* merge two result sequences by descending score; on a tie a comes first
Merge(a, b) ==
    IF a = << >> THEN b
    ELSE IF b = << >> THEN a
    ELSE IF Head(a).score >= Head(b).score
         THEN <<Head(a)>> \o Merge(Tail(a), b)
         ELSE <<Head(b)>> \o Merge(a, Tail(b))

\* ------------------------------------------------ DatabaseManager queries
query_db_throws(reg, index_name, engineFails) ==
    IF ~has_db(reg, index_name) THEN ERR_DATABASE_NOT_FOUND
    ELSE IF index_name \in engineFails THEN ERR_ENGINE
    ELSE NoError

\* the engine's result sequence, handed on as it is
query_db(reg, index_name, q, collapse_term, limit) ==
    Search(reg[index_name], q, collapse_term, limit)

\* the open databases in the order the manager walks them
OpenFrom(reg, i) ==
    SelectSeq(SubSeq(NameOrder, i, Len(NameOrder)), LAMBDA n : has_db(reg, n))

query_all_throws(reg, engineFails) ==
    IF \E n \in engineFails : has_db(reg, n) THEN ERR_ENGINE ELSE NoError

RECURSIVE MergeAll(_, _, _, _, _)
MergeAll(reg, open, q, collapse_term, limit) ==
    IF open = << >> THEN << >>
    ELSE Merge(Search(reg[Head(open)], q, collapse_term, limit),
               MergeAll(reg, Tail(open), q, collapse_term, limit))

\* every open database is searched, the results are merged by score and
\* the limit is applied to the merged sequence
query_all(reg, q, collapse_term, limit) ==
    Take(MergeAll(reg, OpenFrom(reg, 1), q, collapse_term, limit), limit)

\* --------------------------------------------------------------- responses
RECURSIVE JSON_elements(_)
JSON_elements(results) ==
    IF results = << >> THEN << >>
    ELSE IF Len(results) = 1 THEN << <<"doc", Head(results)>> >>
    ELSE << <<"doc", Head(results)>>, <<",">> >> \o JSON_elements(Tail(results))

\* JSON.stringify of an array, as a sequence of tokens
JSON_stringify(results) == << <<"[">> >> \o JSON_elements(results) \o << <<"]">> >>

\* res(): status, then the headers if given, then the body if given
res(status_code, headers, body) ==
    [status  |-> status_code,
     headers |-> IF headers = Undefined THEN {} ELSE headers[1],
     body    |-> IF body = Undefined THEN << >> ELSE JSON_stringify(body[1])]

AllowHeader == {<<"Allow", META_DATABASE_METHODS>>}

\* -------------------------------------------------------------------- main
\* main() up to the snapshot: nothing is open, and the persisted cache holds
\* what earlier runs wrote, which is never an entry of the reserved name
Init ==
    /\ pc = "replay"
    /\ registry = [n \in Names |-> Absent]
    /\ cache \in [Names -> Paths \cup {Absent}]
    /\ cache[META_DATABASE_NAME] = Absent
    /\ stored_database_paths = get_entries(cache)
    /\ todo = DOMAIN get_entries(cache)
    /\ req = NoRequest
    /\ resp = NoResponse
    /\ thrown = NoError
    /\ calls = << >>
    /\ released = [n \in Names |-> Absent]

\* variant: the catch block forgets to purge
replay_purges_never(e) == FALSE

\* the catch block of the loop: a stale entry is purged from the cache
replay_purges(e) == e = ERR_INVALID_PATH

replay_calls(reg, index_name, path) ==
    IF replay_purges(create_db_throws(reg, index_name, path))
    THEN <<"create_db", "remove_entry">>
    ELSE <<"create_db">>

\* one iteration of the for-in loop over the snapshot; an exception of
\* remove_entry is not caught and ends main()
ReplayEntry(index_name, storageFails) ==
    /\ pc = "replay"
    /\ index_name \in todo
    /\ LET path == stored_database_paths[index_name]
           e    == create_db_throws(registry, index_name, path)
       IN  /\ registry' = create_db(registry, index_name, path)
           /\ IF replay_purges(e)
              THEN /\ cache' = remove_entry(cache, index_name, storageFails)
                   /\ thrown' = IF storageFails THEN cache_throws(storageFails) ELSE e
                   /\ pc' = IF storageFails THEN "crashed" ELSE pc
              ELSE /\ cache' = cache
                   /\ thrown' = e
                   /\ pc' = pc
    /\ todo' = todo \ {index_name}
    /\ calls' = replay_calls(registry, index_name, stored_database_paths[index_name])
    /\ UNCHANGED <<stored_database_paths, req, resp, released>>

\* the loop is over: the handlers are registered and the server runs; no
\* handler refers to the snapshot, which is dropped here
ServerRun ==
    /\ pc = "replay"
    /\ todo = {}
    /\ pc' = "serving"
    /\ stored_database_paths' = << >>
    /\ UNCHANGED <<registry, cache, todo, req, resp, thrown, calls, released>>

\* ---------------------------------------------------------------- handlers
\* GET /:index_name
\* variant: the reserved name is looked up like any other name
get_status_lookup_only(reg, index_name) ==
    IF has_db(reg, index_name) THEN Status_OK ELSE Status_NOT_FOUND

get_status(reg, index_name) ==
    IF has_db(reg, index_name) \/ index_name = META_DATABASE_NAME
    THEN Status_OK
    ELSE Status_NOT_FOUND

GetIndex(index_name) ==
    /\ pc = "serving"
    /\ req' = [method |-> "GET", index_name |-> index_name, query |-> << >>]
    /\ resp' = res(get_status(registry, index_name), Undefined, Undefined)
    /\ thrown' = NoError
    /\ calls' = <<"has_db">>
    /\ UNCHANGED <<pc, registry, cache, stored_database_paths, todo, released>>

\* PUT /:index_name
\* variant: the handler has no check of the reserved name
put_reserved_never(index_name) == FALSE

put_reserved(index_name) == index_name = META_DATABASE_NAME

\* variant: the handler creates without asking has_db first
put_creates_always(reg, index_name) == TRUE

\* the handler creates only under a name the manager does not have
put_creates(reg, index_name) == ~has_db(reg, index_name)

\* variant: a failed set_entry takes the new handle back
put_registry_rollback(reg, index_name, path, storageFails) ==
    IF storageFails THEN reg ELSE create_db(reg, index_name, path)

\* the registry after the try block: neither set_entry nor the catch block
\* touches the manager once create_db has run
put_registry(reg, index_name, path, storageFails) ==
    create_db(reg, index_name, path)

\* what the try block throws: create_db first, then set_entry
put_thrown(reg, index_name, path, storageFails) ==
    IF create_db_throws(reg, index_name, path) # NoError
    THEN create_db_throws(reg, index_name, path)
    ELSE cache_throws(storageFails)

\* variant: the entry is never written
put_cache_skipped(reg, ca, index_name, path, storageFails) == ca

\* variant: the entry is written before create_db has validated the path
put_cache_eager(reg, ca, index_name, path, storageFails) ==
    set_entry(ca, index_name, path, storageFails)

\* the cache after the try block: set_entry runs once create_db returned
put_cache(reg, ca, index_name, path, storageFails) ==
    IF create_db_throws(reg, index_name, path) = NoError
    THEN set_entry(ca, index_name, path, storageFails)
    ELSE ca

\* the catch block, and the final res() when nothing was thrown
put_status(e) ==
    IF e = NoError THEN Status_OK
    ELSE IF e = ERR_INVALID_PATH THEN Status_FORBIDDEN
    ELSE Status_INTERNAL_SERVER_ERROR

PutIndex(index_name, query, storageFails) ==
    /\ pc = "serving"
    /\ req' = [method |-> "PUT", index_name |-> index_name, query |-> query]
    /\ LET path == Param(query, "path") IN
       IF path = Undefined
       THEN /\ resp' = res(Status_BAD_REQUEST, Undefined, Undefined)
            /\ thrown' = NoError
            /\ calls' = << >>
            /\ UNCHANGED <<registry, cache>>
       ELSE IF put_reserved(index_name)
       THEN /\ resp' = res(Status_METHOD_NOT_ALLOWED, <<AllowHeader>>, Undefined)
            /\ thrown' = NoError
            /\ calls' = << >>
            /\ UNCHANGED <<registry, cache>>
       ELSE IF put_creates(registry, index_name)
       THEN /\ registry' = put_registry(registry, index_name, path[1], storageFails)
            /\ cache' = put_cache(registry, cache, index_name, path[1], storageFails)
            /\ thrown' = put_thrown(registry, index_name, path[1], storageFails)
            /\ resp' = res(put_status(put_thrown(registry, index_name, path[1], storageFails)),
                           Undefined, Undefined)
            /\ calls' = IF create_db_throws(registry, index_name, path[1]) = NoError
                         THEN <<"has_db", "create_db", "set_entry">>
                         ELSE <<"has_db", "create_db">>
       ELSE /\ resp' = res(Status_OK, Undefined, Undefined)
            /\ thrown' = NoError
            /\ calls' = <<"has_db">>
            /\ UNCHANGED <<registry, cache>>
    /\ UNCHANGED <<pc, stored_database_paths, todo, released>>

\* DELETE /:index_name
\* variant: the handler has no check of the reserved name
delete_reserved_never(index_name) == FALSE

delete_reserved(index_name) == index_name = META_DATABASE_NAME

\* what the try block throws: remove_db first, then remove_entry
delete_thrown(reg, index_name, storageFails) ==
    IF remove_db_throws(reg, index_name) # NoError
    THEN remove_db_throws(reg, index_name)
    ELSE cache_throws(storageFails)

\* variant: the entry is never removed
delete_cache_skipped(reg, ca, index_name, storageFails) == ca

\* variant: the entry is removed before remove_db has found the handle
delete_cache_eager(reg, ca, index_name, storageFails) ==
    remove_entry(ca, index_name, storageFails)

\* the cache after the try block: remove_entry runs once remove_db returned
delete_cache(reg, ca, index_name, storageFails) ==
    IF remove_db_throws(reg, index_name) = NoError
    THEN remove_entry(ca, index_name, storageFails)
    ELSE ca

\* the catch block answers NOT_FOUND whatever was thrown
delete_status(e) == IF e = NoError THEN Status_OK ELSE Status_NOT_FOUND

\* the handle remove_db closed, remembered when the DELETE is answered 200
delete_released(reg, rel, index_name, storageFails) ==
    IF remove_db_throws(reg, index_name) # NoError THEN rel
    ELSE IF delete_status(delete_thrown(reg, index_name, storageFails)) = Status_OK
    THEN [rel EXCEPT ![index_name] = reg[index_name]]
    ELSE [rel EXCEPT ![index_name] = Absent]

DeleteIndex(index_name, storageFails) ==
    /\ pc = "serving"
    /\ req' = [method |-> "DELETE", index_name |-> index_name, query |-> << >>]
    /\ IF delete_reserved(index_name)
       THEN /\ resp' = res(Status_METHOD_NOT_ALLOWED, <<AllowHeader>>, Undefined)
            /\ thrown' = NoError
            /\ calls' = << >>
            /\ UNCHANGED <<registry, cache, released>>
       ELSE /\ registry' = remove_db(registry, index_name)
            /\ released' = delete_released(registry, released, index_name, storageFails)
            /\ cache' = delete_cache(registry, cache, index_name, storageFails)
            /\ thrown' = delete_thrown(registry, index_name, storageFails)
            /\ resp' = res(delete_status(delete_thrown(registry, index_name, storageFails)),
                           Undefined, Undefined)
            /\ calls' = IF remove_db_throws(registry, index_name) = NoError
                         THEN <<"remove_db", "remove_entry">>
                         ELSE <<"remove_db">>
    /\ UNCHANGED <<pc, stored_database_paths, todo>>

\* GET /:index_name/query
\* variant: a missing limit is reported as a missing database
query_missing_status_404 == Status_NOT_FOUND

query_missing_status == Status_BAD_REQUEST

\* variant: the reserved name is handed to query_db like any other name
query_thrown_no_meta(reg, index_name, engineFails) ==
    query_db_throws(reg, index_name, engineFails)

query_thrown(reg, index_name, engineFails) ==
    IF index_name = META_DATABASE_NAME
    THEN query_all_throws(reg, engineFails)
    ELSE query_db_throws(reg, index_name, engineFails)

\* variant: every query fans out over all open databases
query_results_fan_out(reg, index_name, q, collapse_term, limit) ==
    query_all(reg, q, collapse_term, limit)

\* variant: the test of the reserved name is inverted
query_results_inverted(reg, index_name, q, collapse_term, limit) ==
    IF index_name # META_DATABASE_NAME
    THEN query_all(reg, q, collapse_term, limit)
    ELSE query_db(reg, index_name, q, collapse_term, limit)

query_results(reg, index_name, q, collapse_term, limit) ==
    IF index_name = META_DATABASE_NAME
    THEN query_all(reg, q, collapse_term, limit)
    ELSE query_db(reg, index_name, q, collapse_term, limit)

query_calls(index_name) ==
    IF index_name = META_DATABASE_NAME THEN <<"query_all">> ELSE <<"query_db">>

\* variant: what was collected is sent although the engine failed
query_response_partial(e, results) ==
    IF e = NoError \/ e = ERR_ENGINE THEN res(Status_OK, Undefined, <<results>>)
    ELSE IF e = ERR_DATABASE_NOT_FOUND THEN res(Status_NOT_FOUND, Undefined, Undefined)
    ELSE res(Status_INTERNAL_SERVER_ERROR, Undefined, Undefined)

\* the response of the try block or of the catch block
query_response(e, results) ==
    IF e = NoError THEN res(Status_OK, Undefined, <<results>>)
    ELSE IF e = ERR_DATABASE_NOT_FOUND THEN res(Status_NOT_FOUND, Undefined, Undefined)
    ELSE res(Status_INTERNAL_SERVER_ERROR, Undefined, Undefined)

QueryIndex(index_name, query, engineFails) ==
    /\ pc = "serving"
    /\ req' = [method |-> "QUERY", index_name |-> index_name, query |-> query]
    /\ LET q             == Param(query, "q")
           collapse_term == Param(query, "collapse")
           limit         == Param(query, "limit")
       IN
       IF limit = Undefined
       THEN /\ resp' = res(query_missing_status, Undefined, Undefined)
            /\ thrown' = NoError
            /\ calls' = << >>
       ELSE /\ thrown' = query_thrown(registry, index_name, engineFails)
            /\ calls' = query_calls(index_name)
            /\ resp' = query_response(query_thrown(registry, index_name, engineFails),
                          query_results(registry, index_name, q, collapse_term, limit[1]))
    /\ UNCHANGED <<pc, registry, cache, stored_database_paths, todo, released>>

\* the query strings a client can send
PutQueries == {<< >>} \cup {[path |-> p] : p \in Paths}

QueryParams(q, c, l) ==
    [k \in (IF q = Undefined THEN {} ELSE {"q"})
           \cup (IF c = Undefined THEN {} ELSE {"collapse"})
           \cup (IF l = Undefined THEN {} ELSE {"limit"}) |->
        IF k = "q" THEN q[1] ELSE IF k = "collapse" THEN c[1] ELSE l[1]]

QueryQueries ==
    {QueryParams(q, c, l) : q \in Opt(Queries), c \in Opt(CollapseTerms), l \in Opt(0..MaxLimit)}

Next ==
    \/ \E n \in Names, f \in BOOLEAN : ReplayEntry(n, f)
    \/ ServerRun
    \/ \E n \in Names : GetIndex(n)
    \/ \E n \in Names, query \in PutQueries, f \in BOOLEAN : PutIndex(n, query, f)
    \/ \E n \in Names, f \in BOOLEAN : DeleteIndex(n, f)
    \/ \E n \in Names, query \in QueryQueries, ef \in SUBSET IndexNames : QueryIndex(n, query, ef)

Spec == Init /\ [][Next]_vars

\* the runs in which no storage operation of the cache fails
NextReliable ==
    \/ \E n \in Names : ReplayEntry(n, FALSE)
    \/ ServerRun
    \/ \E n \in Names : GetIndex(n)
    \/ \E n \in Names, query \in PutQueries : PutIndex(n, query, FALSE)
    \/ \E n \in Names : DeleteIndex(n, FALSE)
    \/ \E n \in Names, query \in QueryQueries, ef \in SUBSET IndexNames : QueryIndex(n, query, ef)

SpecReliable == Init /\ [][NextReliable]_vars

TypeOK ==
    /\ pc \in {"replay", "serving", "crashed"}
    /\ registry \in [Names -> Paths \cup {Absent}]
    /\ cache \in [Names -> Paths \cup {Absent}]
    /\ todo \subseteq Names
    /\ released \in [Names -> Paths \cup {Absent}]
    /\ calls \in Seq({"has_db", "create_db", "remove_db", "query_db", "query_all",
                      "set_entry", "remove_entry"})

\* ------------------------------------------------------------------ claims
\* the step is the handler of a request with this method
Handled(method) == req'.method = method
PathOf(request) == request.query.path
HasPath(request) == "path" \in DOMAIN request.query
NonReserved(request) == request.index_name # META_DATABASE_NAME

\* the for-in loop has visited every snapshot entry and main() goes on
ReplayFinished == pc = "replay" /\ todo = {}

\* C1: when the startup loop has visited every snapshot entry, each entry
\* with an openable path has an open handle and is still in the cache, and
\* each entry with an invalid path has no handle and is gone from the cache.
C1_StartupReplay ==
    ReplayFinished =>
        \A n \in DOMAIN stored_database_paths :
            /\ stored_database_paths[n] \in ValidPaths =>
                  /\ registry[n] = stored_database_paths[n]
                  /\ n \in DOMAIN get_entries(cache)
                  /\ get_entries(cache)[n] = stored_database_paths[n]
            /\ stored_database_paths[n] \in InvalidPaths =>
                  /\ ~has_db(registry, n)
                  /\ n \notin DOMAIN get_entries(cache)

C1_Witness ==
    /\ ReplayFinished
    /\ \E n \in DOMAIN stored_database_paths : stored_database_paths[n] \in ValidPaths
    /\ \E n \in DOMAIN stored_database_paths : stored_database_paths[n] \in InvalidPaths

\* C2 as stated: a PUT of a non-reserved name that is not open, with a valid
\* path, is always answered 200 and leaves the handle open, GET answering
\* 200 and the cache holding the entry.
C2_Original ==
    [][ (/\ Handled("PUT") /\ HasPath(req') /\ NonReserved(req')
         /\ ~has_db(registry, req'.index_name)
         /\ PathOf(req') \in ValidPaths)
        => /\ resp'.status = Status_OK
           /\ has_db(registry', req'.index_name)
           /\ get_status(registry', req'.index_name) = Status_OK
           /\ cache'[req'.index_name] = PathOf(req') ]_vars

\* C2 amended: such a PUT always opens the handle at that path, so that GET
\* answers 200; when set_entry succeeds the answer is 200 and the cache
\* holds the entry, when set_entry fails the answer is 500 and the cache is
\* as it was.
C2_PutCreates ==
    [][ (/\ Handled("PUT") /\ HasPath(req') /\ NonReserved(req')
         /\ ~has_db(registry, req'.index_name)
         /\ PathOf(req') \in ValidPaths)
        => /\ registry' = [registry EXCEPT ![req'.index_name] = PathOf(req')]
           /\ get_status(registry', req'.index_name) = Status_OK
           /\ calls' = <<"has_db", "create_db", "set_entry">>
           /\ IF thrown' = ERR_STORAGE
              THEN /\ resp'.status = Status_INTERNAL_SERVER_ERROR
                   /\ cache' = cache
              ELSE /\ resp'.status = Status_OK
                   /\ cache' = [cache EXCEPT ![req'.index_name] = PathOf(req')] ]_vars

C2_Witness ==
    /\ req.method = "PUT"
    /\ calls = <<"has_db", "create_db", "set_entry">>
    /\ thrown = NoError
    /\ resp.status = Status_OK
    /\ registry[req.index_name] = PathOf(req)
    /\ cache[req.index_name] = PathOf(req)

C4_InvalidPathPut ==
    [][ (/\ Handled("PUT") /\ HasPath(req') /\ NonReserved(req')
         /\ ~has_db(registry, req'.index_name)
         /\ PathOf(req') \in InvalidPaths)
        => /\ resp'.status = Status_FORBIDDEN
           /\ registry' = registry
           /\ cache' = cache ]_vars

\* the refused name still has the cache entry an earlier failure left
C4_Witness ==
    /\ req.method = "PUT"
    /\ calls = <<"has_db", "create_db">>
    /\ thrown = ERR_INVALID_PATH
    /\ resp.status = Status_FORBIDDEN
    /\ ~has_db(registry, req.index_name)
    /\ cache[req.index_name] # Absent

\* C5: every PUT on the reserved name, with or without a path, is answered
\* 405 with the header Allow: GET and changes neither registry nor cache.
C5_ReservedPut ==
    [][ (Handled("PUT") /\ req'.index_name = META_DATABASE_NAME)
        => /\ resp'.status = Status_METHOD_NOT_ALLOWED
           /\ resp'.headers = {<<"Allow", "GET">>}
           /\ registry' = registry
           /\ cache' = cache ]_vars

\* C6: every DELETE on the reserved name is answered 405 with the header
\* Allow: GET, calls neither remove_db nor remove_entry, and changes
\* neither registry nor cache.
C6_ReservedDelete ==
    [][ (Handled("DELETE") /\ req'.index_name = META_DATABASE_NAME)
        => /\ resp'.status = Status_METHOD_NOT_ALLOWED
           /\ resp'.headers = {<<"Allow", "GET">>}
           /\ calls' = << >>
           /\ registry' = registry
           /\ cache' = cache ]_vars

C6_Witness ==
    /\ req.method = "DELETE"
    /\ req.index_name = META_DATABASE_NAME
    /\ resp.status = Status_METHOD_NOT_ALLOWED
    /\ \E n \in IndexNames : has_db(registry, n) /\ cache[n] # Absent

\* a name that is not open answers 404 to GET and to a query with a limit
ClosedAnswers404 ==
    /\ [][ (Handled("GET") /\ NonReserved(req') /\ ~has_db(registry, req'.index_name))
           => resp'.status = Status_NOT_FOUND ]_vars
    /\ [][ (/\ Handled("QUERY") /\ NonReserved(req')
            /\ "limit" \in DOMAIN req'.query
            /\ ~has_db(registry, req'.index_name))
           => resp'.status = Status_NOT_FOUND ]_vars

\* while the server runs, a closed name opens only in a PUT of that name
\* whose create_db returned
ReopenedOnlyByPut ==
    [][ \A n \in IndexNames :
           (pc = "serving" /\ ~has_db(registry, n) /\ has_db(registry', n))
           => /\ Handled("PUT") /\ req'.index_name = n
              /\ calls' = <<"has_db", "create_db", "set_entry">> ]_vars

\* C7 as stated: a DELETE of a non-reserved open name is always answered
\* 200, closes the handle and removes the cache entry, touches no other
\* name, and the name answers 404 until a PUT of that name reopens it.
C7_Original ==
    /\ [][ (/\ Handled("DELETE") /\ NonReserved(req')
            /\ has_db(registry, req'.index_name))
           => /\ resp'.status = Status_OK
              /\ registry' = [registry EXCEPT ![req'.index_name] = Absent]
              /\ cache' = [cache EXCEPT ![req'.index_name] = Absent] ]_vars
    /\ ClosedAnswers404
    /\ ReopenedOnlyByPut

\* C7 amended: a DELETE of a non-reserved open name always closes the
\* handle and touches no other name; when remove_entry succeeds it is
\* answered 200 and the cache entry of the name is gone; the name answers
\* 404 to GET and to queries until a PUT of that name creates it again.
C7_DeleteOpen ==
    /\ [][ (/\ Handled("DELETE") /\ NonReserved(req')
            /\ has_db(registry, req'.index_name))
           => /\ registry' = [registry EXCEPT ![req'.index_name] = Absent]
              /\ \A m \in Names \ {req'.index_name} : cache'[m] = cache[m]
              /\ calls' = <<"remove_db", "remove_entry">>
              /\ thrown' = NoError =>
                    /\ resp'.status = Status_OK
                    /\ cache'[req'.index_name] = Absent ]_vars
    /\ ClosedAnswers404
    /\ ReopenedOnlyByPut

C7_Witness ==
    /\ req.method = "DELETE"
    /\ calls = <<"remove_db", "remove_entry">>
    /\ thrown = NoError
    /\ resp.status = Status_OK
    /\ ~has_db(registry, req.index_name)
    /\ cache[req.index_name] = Absent
    /\ \E n \in IndexNames : has_db(registry, n) /\ cache[n] # Absent

\* C8: a DELETE of a non-reserved name that is not open is answered 404 and
\* leaves the open handles and the cache exactly as they were.
C8_DeleteAbsent ==
    [][ (/\ Handled("DELETE") /\ NonReserved(req')
         /\ ~has_db(registry, req'.index_name))
        => /\ resp'.status = Status_NOT_FOUND
           /\ registry' = registry
           /\ cache' = cache ]_vars

\* the name that was not found still has its stale cache entry
C8_Witness ==
    /\ req.method = "DELETE"
    /\ calls = <<"remove_db">>
    /\ thrown = ERR_DATABASE_NOT_FOUND
    /\ resp.status = Status_NOT_FOUND
    /\ cache[req.index_name] # Absent
    /\ \E n \in IndexNames : has_db(registry, n)

\* C9: a query request without a limit is answered 400 for every name,
\* without a call to the manager and without a change to registry or cache.
C9_MissingLimit ==
    [][ (Handled("QUERY") /\ "limit" \notin DOMAIN req'.query)
        => /\ resp'.status = Status_BAD_REQUEST
           /\ calls' = << >>
           /\ registry' = registry
           /\ cache' = cache ]_vars

C9_Witness ==
    /\ req.method = "QUERY"
    /\ "limit" \notin DOMAIN req.query
    /\ "q" \in DOMAIN req.query
    /\ has_db(registry, req.index_name)
    /\ resp.status = Status_BAD_REQUEST

\* C10: a query with a limit on a non-reserved name is answered 404 exactly
\* when the name is not open; on an open name it is answered 200 with the
\* engine's result sequence as body, or 500 when the engine fails; registry
\* and cache are unchanged in every case.
C10_QueryOne ==
    [][ (/\ Handled("QUERY") /\ NonReserved(req')
         /\ "limit" \in DOMAIN req'.query)
        => /\ resp'.status = Status_NOT_FOUND <=> ~has_db(registry, req'.index_name)
           /\ has_db(registry, req'.index_name) =>
                 IF thrown' = ERR_ENGINE
                 THEN resp' = res(Status_INTERNAL_SERVER_ERROR, Undefined, Undefined)
                 ELSE /\ resp'.status = Status_OK
                      /\ resp'.body = JSON_stringify(
                            Search(registry[req'.index_name], Param(req'.query, "q"),
                                   Param(req'.query, "collapse"), req'.query.limit))
           /\ registry' = registry
           /\ cache' = cache ]_vars

\* an open name answered with two documents while another name is open too
C10_Witness ==
    /\ req.method = "QUERY"
    /\ NonReserved(req)
    /\ "limit" \in DOMAIN req.query
    /\ has_db(registry, req.index_name)
    /\ resp.status = Status_OK
    /\ Len(resp.body) = 5
    /\ \E n \in IndexNames \ {req.index_name} : has_db(registry, n)

\* C11: GET /:name is answered 200 exactly when the name is open or is the
\* reserved name, 404 otherwise, and changes neither registry nor cache.
C11_GetIndex ==
    [][ Handled("GET")
        => /\ resp'.status = Status_OK <=>
                 (has_db(registry, req'.index_name) \/ req'.index_name = "_all")
           /\ resp'.status = Status_NOT_FOUND <=>
                 ~(has_db(registry, req'.index_name) \/ req'.index_name = "_all")
           /\ registry' = registry
           /\ cache' = cache ]_vars

\* the reserved name answered 200 while one name is open and one is not
C11_Witness ==
    /\ req.method = "GET"
    /\ req.index_name = META_DATABASE_NAME
    /\ resp.status = Status_OK
    /\ ~has_db(registry, META_DATABASE_NAME)
    /\ \E n \in IndexNames : has_db(registry, n)
    /\ \E n \in IndexNames : ~has_db(registry, n)

\* the request is a query with a limit on the reserved name
MetaQuery(request) ==
    /\ request.method = "QUERY"
    /\ request.index_name = META_DATABASE_NAME
    /\ "limit" \in DOMAIN request.query

NothingOpen(reg) == \A n \in Names : ~has_db(reg, n)

\* C12: a query with a limit on the reserved name while no index is open is
\* answered 200 with an empty array as body, never 404 and never an error.
C12_MetaQueryEmpty ==
    [][ (MetaQuery(req') /\ NothingOpen(registry))
        => /\ resp'.status = Status_OK
           /\ resp'.body = << <<"[">>, <<"]">> >>
           /\ thrown' = NoError ]_vars

\* nothing is open although the cache still holds an entry
C12_Witness ==
    /\ MetaQuery(req)
    /\ NothingOpen(registry)
    /\ resp.status = Status_OK
    /\ resp.body = << <<"[">>, <<"]">> >>
    /\ \E n \in IndexNames : cache[n] # Absent

\* the documents of a JSON body, in order
BodyDocs(body) ==
    LET toks == SelectSeq(body, LAMBDA t : t[1] = "doc")
    IN  [i \in 1..Len(toks) |-> toks[i][2]]

Range(s) == {s[i] : i \in 1..Len(s)}

\* how often d occurs in s
Count(s, d) == Cardinality({i \in 1..Len(s) : s[i] = d})

\* C13: with both indices open, a query on the reserved name with limit N
\* returns at most N documents, all from the union of the two per-index
\* results for limit N, by descending score, and they are the best of that
\* union: the limit cuts the merged sequence, not each index.  Two names
\* open on one path give every document twice.
C13_MetaQueryMerge ==
    [][ (/\ MetaQuery(req')
         /\ \A n \in IndexNames : has_db(registry, n)
         /\ thrown' = NoError)
        => LET N    == req'.query.limit
               q    == Param(req'.query, "q")
               c    == Param(req'.query, "collapse")
               A    == Search(registry["idx1"], q, c, N)
               B    == Search(registry["idx2"], q, c, N)
               docs == BodyDocs(resp'.body)
           IN  /\ resp'.status = Status_OK
               /\ Len(docs) <= N
               /\ Len(docs) = IF Len(A) + Len(B) < N THEN Len(A) + Len(B) ELSE N
               /\ \A d \in Range(docs) : Count(docs, d) <= Count(A, d) + Count(B, d)
               /\ \A i \in 1..Len(docs), j \in 1..Len(docs) :
                     i < j => docs[i].score >= docs[j].score
               /\ \A d \in Range(A) \cup Range(B) :
                     Count(docs, d) < Count(A, d) + Count(B, d)
                     => \A i \in 1..Len(docs) : docs[i].score >= d.score ]_vars

\* two documents, one from each index although each index had two to give
C13_Witness ==
    /\ MetaQuery(req)
    /\ resp.status = Status_OK
    /\ registry["idx1"] \in ValidPaths
    /\ registry["idx2"] \in ValidPaths
    /\ registry["idx1"] # registry["idx2"]
    /\ req.query.limit = 2
    /\ DOMAIN req.query = {"limit"}
    /\ {d.id : d \in Range(BodyDocs(resp.body))} = {"a1", "b1"}

\* C14: when in a PUT create_db succeeds and set_entry then fails, the
\* handle stays open and queryable after the request, which is answered
\* with an error status.
C14_NoRollback ==
    [][ (/\ Handled("PUT")
         /\ calls' = <<"has_db", "create_db", "set_entry">>
         /\ thrown' = ERR_STORAGE)
        => /\ has_db(registry', req'.index_name)
           /\ registry' = [registry EXCEPT ![req'.index_name] = PathOf(req')]
           /\ get_status(registry', req'.index_name) = Status_OK
           /\ query_db_throws(registry', req'.index_name, {}) = NoError
           /\ resp'.status >= 400 ]_vars

\* the handle is open and the cache has no entry for it
C14_Witness ==
    /\ req.method = "PUT"
    /\ calls = <<"has_db", "create_db", "set_entry">>
    /\ thrown = ERR_STORAGE
    /\ resp.status = Status_INTERNAL_SERVER_ERROR
    /\ registry[req.index_name] = PathOf(req)
    /\ cache[req.index_name] = Absent

\* C15: a storage failure of the cache during a PUT (set_entry) or a DELETE
\* (remove_entry) is answered 500, never with a success status and never
\* with the status of another error kind.
C15_StorageFailureSurfaces ==
    [][ ((Handled("PUT") \/ Handled("DELETE")) /\ thrown' = ERR_STORAGE)
        => resp'.status = Status_INTERNAL_SERVER_ERROR ]_vars

\* C16: in the runs without a storage failure of the cache, once the
\* server runs every open handle has a cache entry of its name with the
\* same path.
C16_OpenHandlesCached ==
    pc = "serving" =>
        \A n \in Names : has_db(registry, n) => cache[n] = registry[n]

\* a PUT with another path on an open name left handle and entry agreeing
C16_Witness ==
    /\ pc = "serving"
    /\ req.method = "PUT"
    /\ calls = <<"has_db">>
    /\ HasPath(req)
    /\ PathOf(req) \in ValidPaths
    /\ PathOf(req) # registry[req.index_name]
    /\ has_db(registry, req.index_name)
    /\ cache[req.index_name] = registry[req.index_name]

\* C17: when the engine fails for one of the open indices of a fan-out, the
\* request is answered 500 with no body, so no partial result is returned,
\* and registry and cache are unchanged.
C17_FanOutFailure ==
    [][ (MetaQuery(req') /\ thrown' = ERR_ENGINE)
        => /\ resp'.status = Status_INTERNAL_SERVER_ERROR
           /\ resp'.body = << >>
           /\ resp'.headers = {}
           /\ registry' = registry
           /\ cache' = cache ]_vars

\* the fan-out went over two open indices
C17_Witness ==
    /\ MetaQuery(req)
    /\ thrown = ERR_ENGINE
    /\ resp.status = Status_INTERNAL_SERVER_ERROR
    /\ resp.body = << >>
    /\ \A n \in IndexNames : has_db(registry, n)
    /\ registry["idx1"] # registry["idx2"]

\* the snapshot entries the loop has visited
Visited == DOMAIN stored_database_paths \ todo

\* C18: no failure of a single entry ends startup: the loop never leaves
\* main() by an exception, and an entry whose create_db failed otherwise
\* than with ERR_INVALID_PATH keeps its cache record and is not open.
C18_ReplayNeverFatal ==
    /\ pc # "crashed"
    /\ pc = "replay" =>
          \A n \in Visited :
              stored_database_paths[n] \in BrokenPaths =>
                  /\ ~has_db(registry, n)
                  /\ cache[n] = stored_database_paths[n]

\* the request is a PUT with a valid path on a name that is closed since a
\* DELETE answered 200
ReopensReleased ==
    /\ Handled("PUT") /\ HasPath(req') /\ NonReserved(req')
    /\ ~has_db(registry, req'.index_name)
    /\ released[req'.index_name] # Absent
    /\ PathOf(req') \in ValidPaths

\* a name closed by a DELETE answered 200 has no cache entry while closed
ReleasedLeavesNoTrace ==
    \A n \in IndexNames :
        (released[n] # Absent /\ ~has_db(registry, n)) => cache[n] = Absent

\* a name has one handle with one path, or none, and so has its cache entry
OneHandlePerName ==
    /\ registry \in [Names -> Paths \cup {Absent}]
    /\ cache \in [Names -> Paths \cup {Absent}]

\* C19 as stated: after a DELETE answered 200, a later PUT of the name with
\* a valid path loc2 reopens it, and then the handle and the cache entry
\* both carry loc2; a name never has two handles or two paths.
C19_Original ==
    /\ [][ ReopensReleased
           => /\ registry'[req'.index_name] = PathOf(req')
              /\ cache'[req'.index_name] = PathOf(req') ]_vars
    /\ [][ReleasedLeavesNoTrace' /\ OneHandlePerName']_vars

\* C19 amended: such a PUT always reopens the name with the handle carrying
\* loc2; the cache entry carries loc2 when set_entry succeeds and the name
\* has no cache entry when set_entry fails; nothing of the earlier path is
\* left in either case, and a name never has two handles or two paths.
C19_Reuse ==
    /\ [][ ReopensReleased
           => /\ registry'[req'.index_name] = PathOf(req')
              /\ calls' = <<"has_db", "create_db", "set_entry">>
              /\ cache'[req'.index_name] =
                    IF thrown' = ERR_STORAGE THEN Absent ELSE PathOf(req') ]_vars
    /\ [][ReleasedLeavesNoTrace' /\ OneHandlePerName']_vars

\* the name was reopened on another path than the one its DELETE closed
C19_Witness ==
    /\ req.method = "PUT"
    /\ calls = <<"has_db", "create_db", "set_entry">>
    /\ thrown = NoError
    /\ resp.status = Status_OK
    /\ released[req.index_name] \in ValidPaths
    /\ released[req.index_name] # PathOf(req)
    /\ registry[req.index_name] = PathOf(req)
    /\ cache[req.index_name] = PathOf(req)

====
